---- MODULE Spec2Model ----
(***************************************************************************)
(* Model of pickomino_helper: dice sets (dice.py), the round state machine *)
(* and its outcome simulator (game_round.py) and the game's tiles          *)
(* (game.py).                                                              *)
(*                                                                         *)
(* A DiceSet is modelled by its `faces` list (a sequence of 0..5).  An     *)
(* optional attribute (Round.roll) is a sequence of length 0 (None) or 1.  *)
(***************************************************************************)
EXTENDS Integers, Sequences, FiniteSets

VARIABLES
    game,    \* the Game object: free_tiles, every player's tiles, current_player_idx
    picked,  \* self.picked.faces of the Round the caller holds
    roll,    \* self.roll of that Round: None or Some(faces)
    dsets,   \* the DiceSet objects the caller has built, by identity (index)
    ret      \* the last call: its name, arguments, exception and return value

vars == <<game, picked, roll, dsets, ret>>

----------------------------------------------------------------------------
(* Bounds of the model *)

\* largest n given to all_rolls
MaxN == 8
\* longest faces list whose combinations() is computed
MaxLen == 4
\* longest faces list given to the constructor of a DiceSet that is compared
MaxEqLen == 3
\* most DiceSet objects the caller builds
MaxHeap == 2
\* most dice in a roll the caller sets on a Round
MaxRoll == 3
\* most dice in the picked set a Round is constructed with
MaxPicked == 5
\* most dice of a round (picked and rolled together) in the model; the game has NDICE
MaxDice == 7

----------------------------------------------------------------------------
(* dice.py *)

WORM == 0
WORM_VAL == 5
FACES == <<0, 1, 2, 3, 4, 5>>

None == <<>>
Some(x) == <<x>>

Range(s) == {s[i] : i \in 1..Len(s)}

\* the builtin sum() on a list of ints, added up by halves
RECURSIVE SumFrom(_, _, _)
SumFrom(s, lo, hi) ==
    IF lo > hi THEN 0
    ELSE IF lo = hi THEN s[lo]
    ELSE LET mid == (lo + hi) \div 2
         IN SumFrom(s, lo, mid) + SumFrom(s, mid + 1, hi)

SumSeq(s) == SumFrom(s, 1, Len(s))

\* b ** e, for ints b and e >= 0
RECURSIVE Pow(_, _)
Pow(b, e) == IF e = 0 THEN 1 ELSE b * Pow(b, e - 1)

\* list(s): the list with every element computed
list(s) == SubSeq(s, 1, Len(s))

\* [x] * count
Repeat(x, count) == [i \in 1..count |-> x]

\* the builtin sorted() on a list of ints
RECURSIVE sorted(_)
sorted(s) ==
    IF s = <<>> THEN <<>>
    ELSE LET rest == sorted(Tail(s))
             x == Head(s)
             k == Cardinality({i \in 1..Len(rest) : rest[i] < x})
         IN SubSeq(rest, 1, k) \o <<x>> \o SubSeq(rest, k + 1, Len(rest))

\* math.comb(n, k)
RECURSIVE comb(_, _)
comb(n, k) ==
    IF k < 0 \/ k > n THEN 0
    ELSE IF k = 0 \/ k = n THEN 1
    ELSE comb(n - 1, k - 1) + comb(n - 1, k)

\* DiceSet.__add__ with a list: a new DiceSet, its faces sorted
DiceSet_add(faces, new_faces) == sorted(faces \o new_faces)

\* DiceSet.__add__ with a single face: the face is wrapped in a list
DiceSet_add_face(faces, face) == DiceSet_add(faces, <<face>>)

\* DiceSet.__contains__
DiceSet_contains(faces, face) == \E i \in 1..Len(faces) : faces[i] = face

\* DiceSet.__len__
DiceSet_len(faces) == Len(faces)

\* the keys of Counter(faces), in the order of their first occurrence
RECURSIVE compact_keys(_)
compact_keys(faces) ==
    IF faces = <<>> THEN <<>>
    ELSE LET init == compact_keys(SubSeq(faces, 1, Len(faces) - 1))
             x == faces[Len(faces)]
         IN IF x \in Range(init) THEN init ELSE Append(init, x)

\* DiceSet.compact: Counter(faces), a mapping face -> occurrences
compact(faces) ==
    [f \in Range(faces) |-> Cardinality({i \in 1..Len(faces) : faces[i] = f})]

RECURSIVE combinations_loop(_, _, _, _), combinations_loop_keep_ndice(_, _, _, _)
\* faulty variant of the loop: `ndice -= count` is left out
combinations_loop_keep_ndice(counts, i, ndice, combs) ==
    IF i > Len(counts) THEN combs
    ELSE combinations_loop_keep_ndice(counts, i + 1, ndice, combs * comb(ndice, counts[i]))
\* the loop of DiceSet.combinations over compact.values(), from position i
combinations_loop(counts, i, ndice, combs) ==
    IF i > Len(counts) THEN combs
    ELSE combinations_loop(counts, i + 1, ndice - counts[i],
                           combs * comb(ndice, counts[i]))

\* DiceSet.combinations
combinations(faces) ==
    LET keys == compact_keys(faces)
        counts == [i \in 1..Len(keys) |-> compact(faces)[keys[i]]]
    IN combinations_loop(counts, 1, Len(faces), 1)

\* face_score
face_score(face) == IF face = WORM THEN WORM_VAL ELSE face

\* DiceSet.score
DiceSet_score(faces) == SumSeq([i \in 1..Len(faces) |-> face_score(faces[i])])

\* DiceSet.is_complete
is_complete(faces) == DiceSet_contains(faces, WORM)

\* all_rolls(n, faces): the rolls in the order they are yielded
RECURSIVE all_rolls(_, _), all_rolls_from(_, _, _)
\* faulty variant: the recursion is restricted to faces[i + 1:], so no face repeats
all_rolls_from_skip(n, faces, i) ==
    IF i > Len(faces) THEN <<>>
    ELSE LET sub == all_rolls(n - 1, SubSeq(faces, i + 1, Len(faces)))
         IN [k \in 1..Len(sub) |-> DiceSet_add_face(sub[k], faces[i])]
            \o all_rolls_from(n, faces, i + 1)
\* faulty variant: the recursion is not restricted to faces[i:], so rolls repeat
all_rolls_from_all_faces(n, faces, i) ==
    IF i > Len(faces) THEN <<>>
    ELSE LET sub == all_rolls(n - 1, faces)
         IN [k \in 1..Len(sub) |-> DiceSet_add_face(sub[k], faces[i])]
            \o all_rolls_from(n, faces, i + 1)
\* the iterations of `for i, face in enumerate(faces)` from index i on
all_rolls_from(n, faces, i) ==
    IF i > Len(faces) THEN <<>>
    ELSE LET sub == all_rolls(n - 1, SubSeq(faces, i, Len(faces)))
         IN [k \in 1..Len(sub) |-> DiceSet_add_face(sub[k], faces[i])]
            \o all_rolls_from(n, faces, i + 1)

all_rolls(n, faces) ==
    IF n > 0 THEN all_rolls_from(n, faces, 1) ELSE << <<>> >>

----------------------------------------------------------------------------
(* game.py: the Game after construction *)

NPlayers == 2
FirstTile == 21
LastTile == 36

\* list(TILE_SCORES.keys())
TILES == [i \in 1..(LastTile - FirstTile + 1) |-> FirstTile + i - 1]

\* Game.__init__ and Player.__init__
Game_init ==
    [free_tiles |-> TILES,
     tiles |-> [p \in 1..NPlayers |-> <<>>],
     current_player_idx |-> 0]

\* Player.pick_tile(tile, score) by player p: the game after the call, or the error
pick_tile(g, p, tile, score) ==
    IF tile \notin Range(g.free_tiles) THEN [exc |-> "TilePickError", game |-> g]
    ELSE IF tile > score THEN [exc |-> "TilePickError", game |-> g]
    ELSE [exc |-> "none",
          game |-> [g EXCEPT !.tiles[p] = Append(@, tile),
                             !.free_tiles = SelectSeq(@, LAMBDA t : t /= tile)]]

\* the game after its k lowest tiles were picked in turn by the players,
\* each with a score equal to the tile
RECURSIVE GameAfter(_)
GameAfter(k) ==
    IF k = 0 THEN Game_init
    ELSE LET g == GameAfter(k - 1)
             p == ((k - 1) % NPlayers) + 1
         IN pick_tile(g, p, g.free_tiles[1], g.free_tiles[1]).game

\* the games a round is played in: a new game, a game with one tile taken,
\* and a game with every tile taken
GameConfigs == {GameAfter(k) : k \in {0, 1, Len(TILES)}}

\* the builtin min() on a non-empty list of ints
Min(s) == CHOOSE x \in Range(s) : \A y \in Range(s) : x <= y

\* Game.valid_score(score): min() of an empty free_tiles raises ValueError;
\* game is the game after the call, which reads free_tiles and the players'
\* tiles and assigns to neither
valid_score(g, score) ==
    IF g.free_tiles = <<>> THEN [exc |-> "ValueError", val |-> FALSE, game |-> g]
    ELSE IF score >= Min(g.free_tiles) THEN [exc |-> "none", val |-> TRUE, game |-> g]
    ELSE [exc |-> "none",
          val |-> \E p \in 1..Len(g.tiles) :
                    g.tiles[p] /= <<>> /\ score = g.tiles[p][Len(g.tiles[p])],
          game |-> g]

\* s[-1] on a non-empty list
Last(s) == s[Len(s)]

\* Player.steal_tile(tile, score) by player p: the game after the call, or the error
\* faulty variant: the tile is not popped from the stack it is stolen from
steal_tile_no_pop(g, p, tile, score) ==
    IF tile /= score THEN [exc |-> "TilePickError", game |-> g]
    ELSE IF tile \in Range(g.tiles[p]) THEN [exc |-> "TilePickError", game |-> g]
    ELSE IF tile \in Range(g.free_tiles) THEN [exc |-> "TilePickError", game |-> g]
    ELSE LET owners == {q \in 1..Len(g.tiles) :
                          g.tiles[q] /= <<>> /\ tile = Last(g.tiles[q])}
         IN IF owners = {} THEN [exc |-> "TilePickError", game |-> g]
            ELSE [exc |-> "none", game |-> [g EXCEPT !.tiles[p] = Append(@, tile)]]
\* Player.steal_tile(tile, score), as the source has it: the tile is taken
\* from the first player of game.players whose last tile it is
steal_tile(g, p, tile, score) ==
    IF tile /= score THEN [exc |-> "TilePickError", game |-> g]
    ELSE IF tile \in Range(g.tiles[p]) THEN [exc |-> "TilePickError", game |-> g]
    ELSE IF tile \in Range(g.free_tiles) THEN [exc |-> "TilePickError", game |-> g]
    ELSE LET owners == {q \in 1..Len(g.tiles) :
                          g.tiles[q] /= <<>> /\ tile = Last(g.tiles[q])}
         IN IF owners = {} THEN [exc |-> "TilePickError", game |-> g]
            ELSE LET q == CHOOSE o \in owners : \A o2 \in owners : o <= o2
                 IN [exc |-> "none",
                     game |-> [g EXCEPT !.tiles[q] = SubSeq(@, 1, Len(@) - 1),
                                        !.tiles[p] = Append(@, tile)]]

\* Game.player_index(player_name): players are named by their position
\* 1..NPlayers in the list; the value is the 0-based index, any other name
\* raises ValueError
player_index(g, player_name) ==
    IF player_name \in 1..Len(g.tiles)
    THEN [exc |-> "none", val |-> player_name - 1]
    ELSE [exc |-> "ValueError", val |-> 0]

\* Game.start(player_name) with a name given: the game after the call, or the error
\* faulty variant: the index is not moved back by one
start_no_back(g, player_name) ==
    LET i == player_index(g, player_name)
    IN IF i.exc /= "none" THEN [exc |-> i.exc, game |-> g]
       ELSE [exc |-> "none", game |-> [g EXCEPT !.current_player_idx = i.val]]
\* Game.start(player_name), as the source has it
start(g, player_name) ==
    LET i == player_index(g, player_name)
    IN IF i.exc /= "none" THEN [exc |-> i.exc, game |-> g]
       ELSE [exc |-> "none", game |-> [g EXCEPT !.current_player_idx = i.val - 1]]

\* Game.start(None): randrange(len(self.players)) draws index i
start_random(g, i) == [g EXCEPT !.current_player_idx = i]

\* Game.current_player, as a position 1..NPlayers: a negative index counts
\* from the end of the list
current_player(g) ==
    IF g.current_player_idx < 0
    THEN Len(g.tiles) + g.current_player_idx + 1
    ELSE g.current_player_idx + 1

\* Game.next_round(): the game after the call (the Round returned is Round(self))
next_round(g) ==
    [g EXCEPT !.current_player_idx = (@ + 1) % Len(g.tiles)]

----------------------------------------------------------------------------
(* game_round.py: Round *)

\* Round.__init__(game, picked_set): `picked_set or DiceSet()`, roll unset
Round_init(picked_set) == [picked |-> picked_set, roll |-> None]

\* Round.pick(face) on the Round `self`: the exception raised or the Round
\* returned, and `self` as the call leaves it
\* faulty variant: one die of the face is picked instead of all of them
pick_one(self, face) ==
    IF self.roll = None THEN [exc |-> "ValueError", val |-> <<>>, self |-> self]
    ELSE IF ~DiceSet_contains(self.roll[1], face)
         THEN [exc |-> "InvalidPickError", val |-> <<>>, self |-> self]
    ELSE IF DiceSet_contains(self.picked, face)
         THEN [exc |-> "InvalidPickError", val |-> <<>>, self |-> self]
    ELSE [exc |-> "none",
          val |-> Round_init(DiceSet_add(self.picked, <<face>>)),
          self |-> self]
\* faulty variant: the test `face in self.picked` is left out
pick_again(self, face) ==
    IF self.roll = None THEN [exc |-> "ValueError", val |-> <<>>, self |-> self]
    ELSE IF ~DiceSet_contains(self.roll[1], face)
         THEN [exc |-> "InvalidPickError", val |-> <<>>, self |-> self]
    ELSE LET count == compact(self.roll[1])[face]
             new_picked == DiceSet_add(self.picked, Repeat(face, count))
         IN [exc |-> "none", val |-> Round_init(new_picked), self |-> self]
\* faulty variant: the picked dice are also added to self.picked in place
pick_inplace(self, face) ==
    IF self.roll = None THEN [exc |-> "ValueError", val |-> <<>>, self |-> self]
    ELSE IF ~DiceSet_contains(self.roll[1], face)
         THEN [exc |-> "InvalidPickError", val |-> <<>>, self |-> self]
    ELSE IF DiceSet_contains(self.picked, face)
         THEN [exc |-> "InvalidPickError", val |-> <<>>, self |-> self]
    ELSE LET count == compact(self.roll[1])[face]
             new_picked == DiceSet_add(self.picked, Repeat(face, count))
         IN [exc |-> "none",
             val |-> Round_init(new_picked),
             self |-> [self EXCEPT !.picked = new_picked]]
\* Round.pick(face), as the source has it
pick(self, face) ==
    IF self.roll = None THEN [exc |-> "ValueError", val |-> <<>>, self |-> self]
    ELSE IF ~DiceSet_contains(self.roll[1], face)
         THEN [exc |-> "InvalidPickError", val |-> <<>>, self |-> self]
    ELSE IF DiceSet_contains(self.picked, face)
         THEN [exc |-> "InvalidPickError", val |-> <<>>, self |-> self]
    ELSE LET count == compact(self.roll[1])[face]
             new_picked == DiceSet_add(self.picked, Repeat(face, count))
         IN [exc |-> "none", val |-> Round_init(new_picked), self |-> self]

\* Round.score
Round_score(self) == DiceSet_score(self.picked)

----------------------------------------------------------------------------
(* game_round.py: Round.simulate *)

(* The floats of a SimResult (prob, avg_score) are modelled as exact        *)
(* fractions <<numerator, denominator>> in lowest terms.                    *)

RECURSIVE GCD(_, _)
GCD(a, b) == IF b = 0 THEN a ELSE GCD(b, a % b)

\* the fraction n / d, d > 0
Frac(n, d) == LET g == GCD(n, d) IN <<n \div g, d \div g>>

\* a + b
FracAdd(a, b) ==
    LET l == (a[2] \div GCD(a[2], b[2])) * b[2]
    IN Frac(a[1] * (l \div a[2]) + b[1] * (l \div b[2]), l)

\* a * k, for an int k
FracTimes(a, k) == Frac(a[1] * k, a[2])

\* a / k, for an int k > 0
FracOver(a, k) == Frac(a[1], a[2] * k)

\* the builtin sum() on a list of floats, added up by halves
RECURSIVE FracSum(_, _, _)
FracSum(s, lo, hi) ==
    IF lo > hi THEN <<0, 1>>
    ELSE IF lo = hi THEN s[lo]
    ELSE LET mid == (lo + hi) \div 2
         IN FracAdd(FracSum(s, lo, mid), FracSum(s, mid + 1, hi))

\* the builtin max() on a non-empty list of ints
Max(s) == CHOOSE x \in Range(s) : \A y \in Range(s) : x >= y

\* the lists ss[lo], ..., ss[hi] joined
RECURSIVE Flatten(_, _, _)
Flatten(ss, lo, hi) ==
    IF lo > hi THEN <<>>
    ELSE IF lo = hi THEN ss[lo]
    ELSE LET mid == (lo + hi) \div 2
         IN Flatten(ss, lo, mid) \o Flatten(ss, mid + 1, hi)

\* SimResult(prob, avg_score, min_score, max_score)
SimResult(prob, avg_score, min_score, max_score) ==
    [prob |-> prob, avg_score |-> avg_score,
     min_score |-> min_score, max_score |-> max_score]

\* the probability of a terminal pick:
\* float(next.picked.is_complete() or self.game.valid_score(next.picked.score()))
terminal_prob(g, next_picked) ==
    IF is_complete(next_picked) THEN [exc |-> "none", val |-> <<1, 1>>, game |-> g]
    ELSE LET v == valid_score(g, DiceSet_score(next_picked))
         IN [exc |-> v.exc, val |-> IF v.val THEN <<1, 1>> ELSE <<0, 1>>,
             game |-> v.game]

\* faulty variant: every continuation roll weighs 1, as if the distinct
\* rolls were equally likely
roll_sims_of_unweighted(sim_res, combs) ==
    LET kept == SelectSeq(FACES, LAMBDA f : f \in DOMAIN sim_res /\ sim_res[f].prob[1] > 0)
    IN [i \in 1..Len(kept) |-> <<sim_res[kept[i]], 1>>]
\* the (result, combs) pairs that one continuation roll adds to roll_sims:
\* the results of its simulation with prob > 0
roll_sims_of(sim_res, combs) ==
    LET kept == SelectSeq(FACES, LAMBDA f : f \in DOMAIN sim_res /\ sim_res[f].prob[1] > 0)
    IN [i \in 1..Len(kept) |-> <<sim_res[kept[i]], combs>>]

\* faulty variant: the average score is divided by the number of labeled
\* rolls instead of the sum of the weights
aggregate_avg_over_rolls(roll_sims, next_roll_count) ==
    LET n == Len(roll_sims)
    IN SimResult(
         FracOver(FracSum([i \in 1..n |-> FracTimes(roll_sims[i][1].prob, roll_sims[i][2])],
                          1, n),
                  Pow(6, next_roll_count)),
         FracOver(FracSum([i \in 1..n |-> FracTimes(roll_sims[i][1].avg_score,
                                                    roll_sims[i][2])], 1, n),
                  Pow(6, next_roll_count)),
         Min([i \in 1..n |-> roll_sims[i][1].min_score]),
         Max([i \in 1..n |-> roll_sims[i][1].max_score]))
\* the SimResult aggregated from a non-empty roll_sims
aggregate(roll_sims, next_roll_count) ==
    LET n == Len(roll_sims)
    IN SimResult(
         FracOver(FracSum([i \in 1..n |-> FracTimes(roll_sims[i][1].prob, roll_sims[i][2])],
                          1, n),
                  Pow(6, next_roll_count)),
         FracOver(FracSum([i \in 1..n |-> FracTimes(roll_sims[i][1].avg_score,
                                                    roll_sims[i][2])], 1, n),
                  SumSeq([i \in 1..n |-> roll_sims[i][2]])),
         Min([i \in 1..n |-> roll_sims[i][1].min_score]),
         Max([i \in 1..n |-> roll_sims[i][1].max_score]))

\* simulate(self, g): self.simulate() on the Round self (its picked set and
\* its roll) in game g. The statements are taken in the order of the source
\* and each one works on the Round and the game the one before has left: exc
\* is the exception raised, val the mapping face -> SimResult returned, self
\* and game the Round and the game when the call is over; subs holds, for
\* each face of the roll, the mappings sim_res that the continuation rolls
\* gave, in the order of all_rolls.
\* simulate_loop: the iterations i.. of `for face in self.roll.compact`,
\*   up to the first one that raises.
\* simulate_face: one iteration of that loop: "skip" (continue, no entry),
\*   "entry" (results[face] is set) or "raise".
\* simulate_rolls: the iterations lo..hi of `for roll in all_rolls(...)`: the
\*   write next.roll = roll, then next.simulate(), on the Round next that the
\*   iteration before has left, up to the first call that raises.
RECURSIVE simulate(_, _)
RECURSIVE simulate_loop(_, _, _, _, _)
RECURSIVE simulate_face(_, _, _, _)
RECURSIVE simulate_rolls(_, _, _, _, _)

\* the iterations lo..hi, given the outcomes left of the iterations lo..mid
simulate_rolls_next(left, rolls, mid, hi) ==
    IF left[Len(left)].exc /= "none" THEN left
    ELSE left \o simulate_rolls(left[Len(left)].self, left[Len(left)].game,
                                rolls, mid + 1, hi)

\* the iterations run in the order of rolls; the range is halved so that the
\* evaluation stays shallow
simulate_rolls(next, g, rolls, lo, hi) ==
    IF lo > hi THEN <<>>
    ELSE IF lo = hi
    THEN LET written == [next EXCEPT !.roll = Some(rolls[lo])]
         IN <<simulate(written, g)>>
    ELSE simulate_rolls_next(simulate_rolls(next, g, rolls, lo, (lo + hi) \div 2),
                             rolls, (lo + hi) \div 2, hi)

\* faulty variant: a pick whose roll_sims is empty gets an entry of zeros
simulate_face_keep_empty(self, g, face, this_roll_count) ==
    LET pk == pick(self, face)
        self1 == pk.self
    IN IF pk.exc = "InvalidPickError"
       THEN [kind |-> "skip", subs |-> <<>>, self |-> self1, game |-> g]
       ELSE
         LET next == pk.val
             next_roll_count ==
                 this_roll_count - (DiceSet_len(next.picked) - DiceSet_len(self1.picked))
         IN IF next_roll_count = 0
            THEN LET prob == terminal_prob(g, next.picked)
                     score == Round_score(next)
                 IN IF prob.exc /= "none"
                    THEN [kind |-> "raise", exc |-> prob.exc,
                          self |-> self1, game |-> prob.game]
                    ELSE [kind |-> "entry", subs |-> <<>>,
                          res |-> SimResult(prob.val, <<score, 1>>, score, score),
                          self |-> self1, game |-> prob.game]
            ELSE LET rolls == all_rolls(next_roll_count, FACES)
                     sims == simulate_rolls(next, g, rolls, 1, Len(rolls))
                     last == sims[Len(sims)]
                 IN IF last.exc /= "none"
                    THEN [kind |-> "raise", exc |-> last.exc,
                          self |-> self1, game |-> last.game]
                    ELSE LET roll_sims ==
                                 Flatten([k \in 1..Len(rolls) |->
                                            roll_sims_of(sims[k].val, combinations(rolls[k]))],
                                         1, Len(rolls))
                             subs == list([k \in 1..Len(rolls) |-> sims[k].val])
                         IN IF roll_sims = <<>>
                            THEN [kind |-> "entry", subs |-> subs,
                                  res |-> SimResult(<<0, 1>>, <<0, 1>>, 0, 0),
                                  self |-> self1, game |-> last.game]
                            ELSE [kind |-> "entry", subs |-> subs,
                                  res |-> aggregate(roll_sims, next_roll_count),
                                  self |-> self1, game |-> last.game]
\* faulty variant: the continuation rolls are written to self.roll as well
\* (self.roll = next.roll = roll)
simulate_face_writes_self(self, g, face, this_roll_count) ==
    LET pk == pick(self, face)
        self1 == pk.self
    IN IF pk.exc = "InvalidPickError"
       THEN [kind |-> "skip", subs |-> <<>>, self |-> self1, game |-> g]
       ELSE
         LET next == pk.val
             next_roll_count ==
                 this_roll_count - (DiceSet_len(next.picked) - DiceSet_len(self1.picked))
         IN IF next_roll_count = 0
            THEN LET prob == terminal_prob(g, next.picked)
                     score == Round_score(next)
                 IN IF prob.exc /= "none"
                    THEN [kind |-> "raise", exc |-> prob.exc,
                          self |-> self1, game |-> prob.game]
                    ELSE [kind |-> "entry", subs |-> <<>>,
                          res |-> SimResult(prob.val, <<score, 1>>, score, score),
                          self |-> self1, game |-> prob.game]
            ELSE LET rolls == all_rolls(next_roll_count, FACES)
                     sims == simulate_rolls(next, g, rolls, 1, Len(rolls))
                     last == sims[Len(sims)]
                 IN IF last.exc /= "none"
                    THEN [kind |-> "raise", exc |-> last.exc,
                          self |-> [self1 EXCEPT !.roll = Some(rolls[Len(sims)])], game |-> last.game]
                    ELSE LET roll_sims ==
                                 Flatten([k \in 1..Len(rolls) |->
                                            roll_sims_of(sims[k].val, combinations(rolls[k]))],
                                         1, Len(rolls))
                             subs == list([k \in 1..Len(rolls) |-> sims[k].val])
                         IN IF roll_sims = <<>>
                            THEN [kind |-> "skip", subs |-> subs,  \* ZeroDivisionError: continue
                                  self |-> [self1 EXCEPT !.roll = Some(rolls[Len(sims)])], game |-> last.game]
                            ELSE [kind |-> "entry", subs |-> subs,
                                  res |-> aggregate(roll_sims, next_roll_count),
                                  self |-> [self1 EXCEPT !.roll = Some(rolls[Len(sims)])], game |-> last.game]
\* one iteration of the loop, as the source has it
simulate_face(self, g, face, this_roll_count) ==
    LET pk == pick(self, face)
        self1 == pk.self
    IN IF pk.exc = "InvalidPickError"
       THEN [kind |-> "skip", subs |-> <<>>, self |-> self1, game |-> g]
       ELSE
         LET next == pk.val
             next_roll_count ==
                 this_roll_count - (DiceSet_len(next.picked) - DiceSet_len(self1.picked))
         IN IF next_roll_count = 0
            THEN LET prob == terminal_prob(g, next.picked)
                     score == Round_score(next)
                 IN IF prob.exc /= "none"
                    THEN [kind |-> "raise", exc |-> prob.exc,
                          self |-> self1, game |-> prob.game]
                    ELSE [kind |-> "entry", subs |-> <<>>,
                          res |-> SimResult(prob.val, <<score, 1>>, score, score),
                          self |-> self1, game |-> prob.game]
            ELSE LET rolls == all_rolls(next_roll_count, FACES)
                     sims == simulate_rolls(next, g, rolls, 1, Len(rolls))
                     last == sims[Len(sims)]
                 IN IF last.exc /= "none"
                    THEN [kind |-> "raise", exc |-> last.exc,
                          self |-> self1, game |-> last.game]
                    ELSE LET roll_sims ==
                                 Flatten([k \in 1..Len(rolls) |->
                                            roll_sims_of(sims[k].val, combinations(rolls[k]))],
                                         1, Len(rolls))
                             subs == list([k \in 1..Len(rolls) |-> sims[k].val])
                         IN IF roll_sims = <<>>
                            THEN [kind |-> "skip", subs |-> subs,  \* ZeroDivisionError: continue
                                  self |-> self1, game |-> last.game]
                            ELSE [kind |-> "entry", subs |-> subs,
                                  res |-> aggregate(roll_sims, next_roll_count),
                                  self |-> self1, game |-> last.game]

\* the iterations of the loop over the faces that follow the iteration d
simulate_loop_next(d, keys, i, this_roll_count) ==
    IF d.kind = "raise" THEN <<d>>
    ELSE <<d>> \o simulate_loop(d.self, d.game, keys, i + 1, this_roll_count)

simulate_loop(self, g, keys, i, this_roll_count) ==
    IF i > Len(keys) THEN <<>>
    ELSE simulate_loop_next(simulate_face(self, g, keys[i], this_roll_count),
                            keys, i, this_roll_count)

\* len(self.roll) raises TypeError when the roll is not set; self.roll.compact
\* is read once, before the first iteration
simulate(self, g) ==
    IF self.roll = None
    THEN [exc |-> "TypeError", val |-> <<>>, subs |-> <<>>, self |-> self, game |-> g]
    ELSE
      LET this_roll_count == DiceSet_len(self.roll[1])
          keys == compact_keys(self.roll[1])
          done == simulate_loop(self, g, keys, 1, this_roll_count)
          last == IF done = <<>> THEN [kind |-> "skip", self |-> self, game |-> g]
                  ELSE done[Len(done)]
      IN IF last.kind = "raise"
         THEN [exc |-> last.exc, val |-> <<>>, subs |-> <<>>,
               self |-> last.self, game |-> last.game]
         ELSE [exc |-> "none",
               val |-> [f \in {keys[i] : i \in {j \in 1..Len(keys) : done[j].kind = "entry"}}
                          |-> done[CHOOSE i \in 1..Len(keys) : keys[i] = f].res],
               subs |-> [f \in Range(keys)
                           |-> done[CHOOSE i \in 1..Len(keys) : keys[i] = f].subs],
               self |-> last.self, game |-> last.game]

\* the residual states (next.picked, next_roll_count) whose continuation,
\* the loop over all_rolls(next_roll_count), a call of simulate() that
\* returns runs, each as often as it is run, in the order of the runs
RECURSIVE continuations(_, _)
continuations(p, r) ==
    LET keys == compact_keys(r)
        of_face(face) ==
            LET pk == pick([picked |-> p, roll |-> Some(r)], face)
            IN IF pk.exc /= "none" THEN <<>>
               ELSE LET next == pk.val
                        next_roll_count ==
                            DiceSet_len(r) - (DiceSet_len(next.picked) - DiceSet_len(p))
                        rolls == all_rolls(next_roll_count, FACES)
                    IN IF next_roll_count = 0 THEN <<>>
                       ELSE << <<next.picked, next_roll_count>> >>
                            \o Flatten([k \in 1..Len(rolls) |->
                                          continuations(next.picked, rolls[k])],
                                       1, Len(rolls))
    IN Flatten([i \in 1..Len(keys) |-> of_face(keys[i])], 1, Len(keys))

----------------------------------------------------------------------------
(* Calls and their results *)

NoCall == [op |-> "none", args |-> <<>>, exc |-> "none", val |-> <<>>]
Returned(op, args, val) == [op |-> op, args |-> args, exc |-> "none", val |-> val]
Raised(op, args, exc) == [op |-> op, args |-> args, exc |-> exc, val |-> <<>>]
\* a call the caller is about to make
Pending(op, args) == [op |-> op, args |-> args, exc |-> "pending", val |-> <<>>]
IsPending(op) == ret.op = op /\ ret.exc = "pending"

\* all lists of length 0..n over the faces
RECURSIVE FaceLists(_)
FaceLists(n) ==
    IF n = 0 THEN {<<>>}
    ELSE LET shorter == FaceLists(n - 1)
         IN shorter \cup {Append(s, f) : s \in {t \in shorter : Len(t) = n - 1},
                                         f \in Range(FACES)}

\* the sub-lists of FACES (faces in their canonical order, some left out)
SubLists ==
    {SelectSeq(FACES, LAMBDA f : f \in S) : S \in SUBSET Range(FACES)}

Init ==
    /\ game = Game_init
    /\ picked = <<>>
    /\ roll = None
    /\ dsets = <<>>
    /\ ret = NoCall

----------------------------------------------------------------------------
(* SpecDice: the pure functions of dice.py applied to bounded inputs *)

InitDice ==
    /\ game = Game_init
    /\ picked = <<>>
    /\ roll = None
    /\ dsets = <<>>
    /\ ret \in {Pending("all_rolls", <<n, faces>>) : n \in 0..MaxN, faces \in SubLists}
              \cup {Pending("combinations", <<faces>>) : faces \in FaceLists(MaxLen)}

\* list(all_rolls(n, faces))
AllRolls ==
    /\ IsPending("all_rolls")
    /\ ret' = Returned("all_rolls", ret.args, all_rolls(ret.args[1], ret.args[2]))
    /\ UNCHANGED <<game, picked, roll, dsets>>

\* DiceSet(faces).combinations()
Combinations ==
    /\ IsPending("combinations")
    /\ ret' = Returned("combinations", ret.args, combinations(ret.args[1]))
    /\ UNCHANGED <<game, picked, roll, dsets>>

NextDice == AllRolls \/ Combinations

SpecDice == InitDice /\ [][NextDice]_vars

----------------------------------------------------------------------------
(* Claims about dice.py, checked under SpecDice *)

RECURSIVE Factorial(_)
Factorial(n) == IF n <= 0 THEN 1 ELSE n * Factorial(n - 1)

\* occurrences of face f in a faces list
Count(f, faces) == Cardinality({i \in 1..Len(faces) : faces[i] = f})

\* the face counts of a faces list over a given list of faces, as a tuple
CountsOver(fs, faces) == [i \in 1..Len(fs) |-> Count(fs[i], faces)]

\* n! / product of count_f!, computed from factorials
Multinomial(faces) ==
    LET c == CountsOver(FACES, faces)
    IN Factorial(Len(faces)) \div
           (Factorial(c[1]) * Factorial(c[2]) * Factorial(c[3])
            * Factorial(c[4]) * Factorial(c[5]) * Factorial(c[6]))

\* the permutations of 1..n
Perms(n) == {p \in [1..n -> 1..n] : \A i, j \in 1..n : p[i] = p[j] => i = j}

ReturnedBy(op) == ret.op = op /\ ret.exc = "none"

\* C7: the sum of combinations() over the rolls yielded by all_rolls(n, faces)
\* is len(faces)^n, that is 6^n for the six faces of a die.
C7_CombinationsPartition ==
    ReturnedBy("all_rolls") =>
        SumSeq([k \in 1..Len(ret.val) |-> combinations(ret.val[k])])
            = Pow(Len(ret.args[2]), ret.args[1])

C7_Witness ==
    /\ ReturnedBy("all_rolls")
    /\ ret.args = <<MaxN, FACES>>
    /\ SumSeq([k \in 1..Len(ret.val) |-> combinations(ret.val[k])]) = Pow(6, MaxN)

\* C8: all_rolls(n, faces) yields every multiset of n dice over the faces
\* exactly once: each roll has n dice showing given faces, no two rolls have
\* the same face counts, no multiset is missing, and C(n + 5, 5) rolls are
\* yielded for the six faces (C(n + k - 1, k - 1) for k >= 1 faces).
C8_AllRollsExactlyOnce ==
    ReturnedBy("all_rolls") =>
        LET n == ret.args[1]
            fs == ret.args[2]
            yielded == {CountsOver(fs, ret.val[k]) : k \in 1..Len(ret.val)}
        IN /\ \A k \in 1..Len(ret.val) :
                Len(ret.val[k]) = n /\ Range(ret.val[k]) \subseteq Range(fs)
           /\ Cardinality(yielded) = Len(ret.val)
           /\ yielded = {c \in [1..Len(fs) -> 0..n] : SumSeq(c) = n}
           /\ Len(fs) >= 1 => Len(ret.val) = comb(n + Len(fs) - 1, Len(fs) - 1)

C8_Witness ==
    /\ ReturnedBy("all_rolls")
    /\ ret.args = <<MaxN, FACES>>
    /\ Len(ret.val) = comb(MaxN + 5, 5)
    /\ \E j, k \in 1..Len(ret.val) : j /= k /\ Range(ret.val[j]) = Range(ret.val[k])

\* C10: combinations() of n dice is the multinomial coefficient
\* n! / prod(count_f!), whatever the order in which the distinct faces are
\* visited, and it is a positive integer.
C10_CombinationsMultinomial ==
    ReturnedBy("combinations") =>
        LET faces == ret.args[1]
            keys == compact_keys(faces)
            counts == [i \in 1..Len(keys) |-> compact(faces)[keys[i]]]
        IN /\ ret.val = Multinomial(faces)
           /\ ret.val > 0
           /\ \A p \in Perms(Len(counts)) :
                combinations_loop([i \in 1..Len(counts) |-> counts[p[i]]],
                                  1, Len(faces), 1) = ret.val

C10_Witness ==
    /\ ReturnedBy("combinations")
    /\ ret.args[1] = <<2, 1, 1>>
    /\ ret.val = 3

----------------------------------------------------------------------------
(* SpecEq: DiceSet objects built by the caller and compared with == *)

\* DiceSet.__init__ with a list of faces: the list is kept as given
DiceSet_init(faces) == faces

\* a == b for DiceSet objects: the class defines no __eq__, so Python
\* compares the identities of the two objects (here their heap indices)
DiceSet_eq(a, b) == a = b

NewDiceSet(faces) ==
    /\ Len(dsets) < MaxHeap
    /\ dsets' = Append(dsets, DiceSet_init(faces))
    /\ ret' = Returned("DiceSet", <<faces>>, Len(dsets) + 1)
    /\ UNCHANGED <<game, picked, roll>>

Eq(a, b) ==
    /\ ret' = Returned("eq", <<a, b>>, DiceSet_eq(a, b))
    /\ UNCHANGED <<game, picked, roll, dsets>>

NextEq ==
    \/ \E faces \in FaceLists(MaxEqLen) : NewDiceSet(faces)
    \/ \E a \in 1..Len(dsets), b \in 1..Len(dsets) : Eq(a, b)

SpecEq == Init /\ [][NextEq]_vars

\* C9: two dice sets compare equal if and only if their face-count mappings
\* are equal, whatever the order of their faces.
C9_EqualIffSameCounts ==
    ReturnedBy("eq") =>
        (ret.val <=> compact(dsets[ret.args[1]]) = compact(dsets[ret.args[2]]))

----------------------------------------------------------------------------
(* SpecPick: a caller that sets rolls on the Round it holds and picks *)

\* Round(game, DiceSet(faces)) for the picked sets of the model: dice of one
\* face, as one pick leaves them
InitPick ==
    /\ game = Game_init
    /\ \E f \in Range(FACES), c \in 0..MaxPicked :
         /\ picked = Round_init(Repeat(f, c)).picked
         /\ roll = Round_init(Repeat(f, c)).roll
    /\ dsets = <<>>
    /\ ret = NoCall

\* self.roll = DiceSet(faces), by the caller (as simulate does on line 66)
SetRoll(faces) ==
    /\ ret = NoCall
    /\ Len(picked) + Len(faces) <= MaxDice
    /\ roll' = Some(faces)
    /\ UNCHANGED <<game, picked, dsets, ret>>

\* self.pick(face)
Pick(face) ==
    /\ ret = NoCall
    /\ LET r == pick([picked |-> picked, roll |-> roll], face)
       IN /\ ret' = [op |-> "pick", args |-> <<face>>, exc |-> r.exc, val |-> r.val]
          /\ picked' = r.self.picked
          /\ roll' = r.self.roll
    /\ UNCHANGED <<game, dsets>>

\* the caller goes on with the Round that pick returned
Continue ==
    /\ ReturnedBy("pick")
    /\ picked' = ret.val.picked
    /\ roll' = ret.val.roll
    /\ ret' = NoCall
    /\ UNCHANGED <<game, dsets>>

\* the caller drops the result of its last call and keeps its Round
Discard ==
    /\ ret.op /= "none"
    /\ ret' = NoCall
    /\ UNCHANGED <<game, picked, roll, dsets>>

\* the rolls a caller sets: the rolls of 1..MaxRoll dice
Rolls == UNION {Range(all_rolls(n, FACES)) : n \in 1..MaxRoll}

NextPick ==
    \/ \E faces \in Rolls : SetRoll(faces)
    \/ \E face \in Range(FACES) : Pick(face)
    \/ Continue
    \/ Discard

SpecPick == InitPick /\ [][NextPick]_vars

----------------------------------------------------------------------------
(* Claims about Round.pick, checked under SpecPick *)

\* the state is the one a call of pick(face) on the caller's Round has left
AfterPick == ret.op = "pick"

\* C3 as stated: pick(face) fails with InvalidPickError whenever face is
\* already present in picked.
C3_AlreadyPickedIsInvalidPick ==
    (AfterPick /\ DiceSet_contains(picked, ret.args[1]))
        => ret.exc = "InvalidPickError"

\* C3 as amended: pick(face) fails whenever face is already present in
\* picked, with InvalidPickError when the roll is set (also if face is in the
\* roll) and with ValueError when the roll is not set; a successful pick is
\* of a face absent from picked, so the dice of that face in the new picked
\* set are exactly those of this pick.
C3_AlreadyPickedFails ==
    AfterPick =>
        LET face == ret.args[1]
        IN /\ (DiceSet_contains(picked, face) /\ roll /= None)
                => ret.exc = "InvalidPickError"
           /\ (DiceSet_contains(picked, face) /\ roll = None)
                => ret.exc = "ValueError"
           /\ ret.exc = "none"
                => /\ ~DiceSet_contains(picked, face)
                   /\ Count(face, ret.val.picked) = Count(face, roll[1])

C3_Witness ==
    /\ AfterPick
    /\ roll /= None
    /\ DiceSet_contains(picked, ret.args[1])
    /\ DiceSet_contains(roll[1], ret.args[1])
    /\ ret.exc = "InvalidPickError"

\* C4: a successful pick(face) returns a Round whose picked multiset is the
\* old one plus exactly count(face in roll) copies of face, and whose roll is
\* unset.
C4_PickTakesAllDiceOfFace ==
    (AfterPick /\ ret.exc = "none") =>
        /\ ret.val.roll = None
        /\ \A f \in Range(FACES) :
             Count(f, ret.val.picked)
                = Count(f, picked)
                  + (IF f = ret.args[1] THEN Count(f, roll[1]) ELSE 0)
        /\ Len(ret.val.picked) = Len(picked) + Count(ret.args[1], roll[1])

C4_Witness ==
    /\ AfterPick
    /\ ret.exc = "none"
    /\ picked /= <<>>
    /\ Count(ret.args[1], roll[1]) >= 2
    /\ Len(roll[1]) > Count(ret.args[1], roll[1])

\* C5: pick never changes the Round it is called on, whether it succeeds or
\* raises: picked and roll of that Round are the same after the call.
C5_PickLeavesSelfUnchanged ==
    [][(ret.op = "none" /\ ret'.op = "pick") => (picked' = picked /\ roll' = roll)]_vars

C5_Witness ==
    /\ AfterPick
    /\ ret.exc = "none"
    /\ roll /= None
    /\ picked /= <<>>
    /\ ret.val.picked /= picked

----------------------------------------------------------------------------
(* Spec: a caller that sets rolls, picks and simulates, in a given game *)

\* one die of every face but f
AllBut(f) == SelectSeq(FACES, LAMBDA x : x /= f)

\* Round(game, picked_set) in each game of the model, with a picked set that
\* is empty, holds MaxPicked dice of one face, or holds one die of every
\* face but one
InitRound ==
    /\ game \in GameConfigs
    /\ \E picked_set \in {Repeat(f, c) : f \in Range(FACES), c \in {0, MaxPicked}}
                          \cup {AllBut(f) : f \in Range(FACES)} :
         /\ picked = Round_init(picked_set).picked
         /\ roll = Round_init(picked_set).roll
    /\ dsets = <<>>
    /\ ret = NoCall

\* the call of simulate() whose outcome is r
SimulateCall(r) ==
    [op |-> "simulate", args |-> <<>>, exc |-> r.exc, val |-> r.val, subs |-> r.subs]

\* the caller's state after the call of simulate() whose outcome is r
SimulateDone(r) ==
    /\ ret' = SimulateCall(r)
    /\ picked' = r.self.picked
    /\ roll' = r.self.roll
    /\ game' = r.game

\* self.simulate(), as a first call or as a call that follows a call of
\* simulate()
Simulate ==
    /\ ret = NoCall \/ ret.op = "simulate"
    /\ SimulateDone(simulate([picked |-> picked, roll |-> roll], game))
    /\ UNCHANGED dsets

Next ==
    \/ \E faces \in Rolls : SetRoll(faces)
    \/ Simulate
    \/ Discard

Spec == InitRound /\ [][Next]_vars

----------------------------------------------------------------------------
(* Claims about Round.simulate, checked under Spec *)

\* the state is the one a call of simulate() on the caller's Round has left
AfterSimulate == ret.op = "simulate" /\ roll /= None

\* picking face f from the roll is legal and leaves no dice to roll
TerminalPick(f) ==
    /\ Len(roll[1]) >= 1
    /\ Count(f, roll[1]) = Len(roll[1])
    /\ ~DiceSet_contains(picked, f)

\* C1: every SimResult in the mapping returned by simulate() has a
\* probability in [0, 1].
C1_ProbabilityInUnitInterval ==
    (AfterSimulate /\ ret.exc = "none") =>
        \A f \in DOMAIN ret.val :
            /\ 0 <= ret.val[f].prob[1]
            /\ ret.val[f].prob[1] <= ret.val[f].prob[2]

\* C2: a terminal pick whose resulting picked set contains no WORM is
\* reported with probability 0.0, whatever the score and the game's tiles.
C2_NoWormNoValidRound ==
    (AfterSimulate /\ ret.exc = "none") =>
        \A f \in DOMAIN ret.val :
            (TerminalPick(f) /\ f /= WORM /\ ~DiceSet_contains(picked, WORM))
                => ret.val[f].prob = <<0, 1>>

\* C6: for a terminal pick, simulate() returns a mapping with an entry for
\* the face, with avg_score = min_score = max_score = the score of the
\* resulting picked set and probability exactly 0.0 or 1.0.
C6_TerminalEntryAlwaysPresent ==
    AfterSimulate =>
        \A f \in Range(FACES) :
            TerminalPick(f) =>
                /\ ret.exc = "none"
                /\ f \in DOMAIN ret.val
                /\ LET score == DiceSet_score(picked) + Len(roll[1]) * face_score(f)
                   IN /\ ret.val[f].avg_score = <<score, 1>>
                      /\ ret.val[f].min_score = score
                      /\ ret.val[f].max_score = score
                      /\ ret.val[f].prob \in {<<0, 1>>, <<1, 1>>}

\* C11: within one top-level simulate() call that returns, the
\* continuation of a residual state (picked set, remaining dice count) is
\* computed at most once.
C11_ContinuationComputedOnce ==
    (AfterSimulate /\ ret.exc = "none") =>
        LET runs == continuations(picked, roll[1])
        IN \A i, j \in 1..Len(runs) : runs[i] = runs[j] => i = j

\* picking face f from the roll is legal
LegalPick(f) == DiceSet_contains(roll[1], f) /\ ~DiceSet_contains(picked, f)

\* the number of dice left to roll after picking face f from the roll
DiceLeft(f) == Len(roll[1]) - Count(f, roll[1])

\* the (continuation roll, pick choice) pairs of face f whose sub-result
\* has a probability > 0, the roll given by its position in all_rolls
PoolOf(f) ==
    {<<k, f2>> \in (1..Len(ret.subs[f])) \X Range(FACES) :
        f2 \in DOMAIN ret.subs[f][k] /\ ret.subs[f][k][f2].prob[1] > 0}

\* C13: the mapping returned by simulate() has an entry for face f if and
\* only if f is in the roll, f is not in picked, and picking f is terminal
\* or some roll of all_rolls(m) has a sub-result with probability > 0; an
\* empty pool raises no error.
C13_EntryIffLegalAndViable ==
    AfterSimulate =>
        /\ ret.exc /= "ZeroDivisionError"
        /\ ret.exc = "none" =>
             /\ DOMAIN ret.subs = {f \in Range(FACES) : DiceSet_contains(roll[1], f)}
             /\ \A f \in Range(FACES) :
                  (LegalPick(f) /\ ~TerminalPick(f))
                      => Len(ret.subs[f]) = Len(all_rolls(DiceLeft(f), FACES))
             /\ \A f \in Range(FACES) :
                  f \in DOMAIN ret.val
                      <=> (LegalPick(f) /\ (TerminalPick(f) \/ PoolOf(f) /= {}))

\* simulate() has left out a legal pick whose pool is empty and has
\* skipped a face that was picked before
C13_Witness ==
    /\ AfterSimulate
    /\ ret.exc = "none"
    /\ \E f \in Range(FACES) :
         /\ LegalPick(f) /\ ~TerminalPick(f) /\ PoolOf(f) = {}
         /\ f \notin DOMAIN ret.val
    /\ \E f \in Range(FACES) :
         DiceSet_contains(roll[1], f) /\ DiceSet_contains(picked, f)

\* the sum of F[x] over the x in S, F a function to fractions
RECURSIVE FracSumOver(_, _)
FracSumOver(F, S) ==
    IF S = {} THEN <<0, 1>>
    ELSE LET x == CHOOSE y \in S : TRUE
         IN FracAdd(F[x], FracSumOver(F, S \ {x}))

\* the fractions a and b are the same number
FracEq(a, b) == a[1] * b[2] = b[1] * a[2]

\* the sum of F[x] over the pairs x of pool, added up roll by roll over the
\* n rolls
PoolSum(F, pool, n) ==
    FracSum(list([k \in 1..n |-> FracSumOver(F, {x \in pool : x[1] = k})]), 1, n)

\* the reference aggregation of the pool of face f, with the weight of
\* each sub-result the combinations() of its roll
ReferenceResult(f) ==
    LET m == DiceLeft(f)
        rolls == all_rolls(m, FACES)
        n == Len(rolls)
        pool == PoolOf(f)
        sub(x) == ret.subs[f][x[1]][x[2]]
        weight(x) == combinations(rolls[x[1]])
        weights == PoolSum([x \in pool |-> <<weight(x), 1>>], pool, n)
    IN SimResult(
         FracOver(PoolSum([x \in pool |-> FracTimes(sub(x).prob, weight(x))], pool, n),
                  Pow(6, m)),
         FracOver(PoolSum([x \in pool |-> FracTimes(sub(x).avg_score, weight(x))], pool, n),
                  weights[1]),
         CHOOSE lo \in {sub(x).min_score : x \in pool} :
             \A x \in pool : lo <= sub(x).min_score,
         CHOOSE hi \in {sub(x).max_score : x \in pool} :
             \A x \in pool : hi >= sub(x).max_score)

\* C14: in the recursive case the SimResult of the face is the reference
\* aggregation over the pool of sub-results with probability > 0 of all
\* rolls of all_rolls(m): probability = sum(prob * weight) / 6^m,
\* avg_score = sum(avg_score * weight) / sum(weight), min_score and
\* max_score the minimum and the maximum, the weights being combinations().
C14_RecursiveAggregation ==
    (AfterSimulate /\ ret.exc = "none") =>
        \A f \in DOMAIN ret.val :
            ~TerminalPick(f) =>
                LET ref == ReferenceResult(f)
                IN /\ FracEq(ret.val[f].prob, ref.prob)
                   /\ FracEq(ret.val[f].avg_score, ref.avg_score)
                   /\ ret.val[f].min_score = ref.min_score
                   /\ ret.val[f].max_score = ref.max_score

\* simulate() has aggregated, for a pick that leaves two dice, a pool with
\* sub-results of rolls of different weights, and has left out a sub-result
\* of probability 0
C14_Witness ==
    /\ AfterSimulate
    /\ ret.exc = "none"
    /\ \E f \in DOMAIN ret.val :
         /\ DiceLeft(f) = 2
         /\ \E x, y \in PoolOf(f) :
              combinations(all_rolls(2, FACES)[x[1]])
                  /= combinations(all_rolls(2, FACES)[y[1]])
         /\ \E k \in 1..Len(ret.subs[f]) : \E f2 \in DOMAIN ret.subs[f][k] :
              ret.subs[f][k][f2].prob[1] = 0

\* C15: a call of simulate() leaves the Round's picked set and roll and the
\* game's free tiles, players' tiles and current player as they were, and
\* a call of simulate() that follows a call of simulate() returns the same.
C15_SimulateIsPure ==
    [][ret'.op = "simulate" =>
         /\ picked' = picked
         /\ roll' = roll
         /\ game' = game
         /\ ret.op = "simulate" => ret' = ret]_vars

\* simulate() has returned a mapping with a recursive entry
C15_Witness ==
    /\ AfterSimulate
    /\ ret.exc = "none"
    /\ \E f \in DOMAIN ret.val : ~TerminalPick(f)

\* the score of the picked set after picking face f from the roll
ScoreAfterPick(f) == DiceSet_score(picked) + Count(f, roll[1]) * face_score(f)

\* C19: every SimResult returned by simulate() has
\* min_score <= avg_score <= max_score, and min_score is at least the score
\* of the picked set after the pick the entry stands for.
C19_ScoreBounds ==
    (AfterSimulate /\ ret.exc = "none") =>
        \A f \in DOMAIN ret.val :
            LET res == ret.val[f]
            IN /\ res.min_score * res.avg_score[2] <= res.avg_score[1]
               /\ res.avg_score[1] <= res.max_score * res.avg_score[2]
               /\ res.min_score >= ScoreAfterPick(f)

\* simulate() has returned an entry with min_score < avg_score < max_score
\* and min_score above the score after the pick
C19_Witness ==
    /\ AfterSimulate
    /\ ret.exc = "none"
    /\ \E f \in DOMAIN ret.val :
         LET res == ret.val[f]
         IN /\ res.min_score * res.avg_score[2] < res.avg_score[1]
            /\ res.avg_score[1] < res.max_score * res.avg_score[2]
            /\ res.min_score > ScoreAfterPick(f)

----------------------------------------------------------------------------
(* SpecGame: players pick and steal tiles, the game starts and moves on *)

\* the tiles a call may name: the MaxMovable lowest tiles and the highest
\* tile, and the two numbers next to the tiles that are no tile
MaxMovable == 2
TileArgs ==
    ((FirstTile - 1)..(FirstTile + MaxMovable - 1)) \cup (LastTile..(LastTile + 1))
\* the scores a call may name with a tile: below, equal and above
ScoreArgs(tile) == {tile - 1, tile, tile + 1}
\* the scores valid_score is asked about
Scores == (FirstTile - 1)..(LastTile + 1)
\* the names start() is called with: the players and a name that is no player's
Names == 1..(NPlayers + 1)

\* a new game, and a game where all tiles but the highest are taken
InitGame ==
    /\ game \in {GameAfter(0), GameAfter(Len(TILES) - 1)}
    /\ picked = <<>>
    /\ roll = None
    /\ dsets = <<>>
    /\ ret = NoCall

\* game.players[p - 1].pick_tile(tile, score)
PickTile(p, tile, score) ==
    LET r == pick_tile(game, p, tile, score)
    IN /\ ret.op = "none"
       /\ game' = r.game
       /\ ret' = [op |-> "pick_tile", args |-> <<p, tile, score>>,
                  exc |-> r.exc, val |-> <<>>]
       /\ UNCHANGED <<picked, roll, dsets>>

\* game.players[p - 1].steal_tile(tile, score)
StealTile(p, tile, score) ==
    LET r == steal_tile(game, p, tile, score)
    IN /\ ret.op = "none"
       /\ game' = r.game
       /\ ret' = [op |-> "steal_tile", args |-> <<p, tile, score>>,
                  exc |-> r.exc, val |-> <<>>]
       /\ UNCHANGED <<picked, roll, dsets>>

\* game.valid_score(score)
ValidScore(score) ==
    LET r == valid_score(game, score)
    IN /\ ret.op = "none"
       /\ ret' = [op |-> "valid_score", args |-> <<score>>,
                  exc |-> r.exc, val |-> r.val]
       /\ UNCHANGED <<game, picked, roll, dsets>>

\* game.start(player_name)
Start(player_name) ==
    LET r == start(game, player_name)
    IN /\ ret.op = "none"
       /\ game' = r.game
       /\ ret' = [op |-> "start", args |-> <<player_name>>,
                  exc |-> r.exc, val |-> <<>>]
       /\ UNCHANGED <<picked, roll, dsets>>

\* game.start(): a random player is selected
StartRandom ==
    \E i \in 0..(NPlayers - 1) :
        /\ ret.op = "none"
        /\ game' = start_random(game, i)
        /\ ret' = Returned("start", <<>>, <<>>)
        /\ UNCHANGED <<picked, roll, dsets>>

\* game.next_round(), also right after another call; the caller takes the
\* Round returned as its round
NextRound ==
    /\ game' = next_round(game)
    /\ picked' = Round_init(<<>>).picked
    /\ roll' = Round_init(<<>>).roll
    /\ ret' = Returned("next_round", <<>>, Round_init(<<>>))
    /\ UNCHANGED dsets

NextGame ==
    \/ \E p \in 1..NPlayers, tile \in TileArgs :
         \E score \in ScoreArgs(tile) : PickTile(p, tile, score)
    \/ \E p \in 1..NPlayers, tile \in TileArgs :
         \E score \in ScoreArgs(tile) : StealTile(p, tile, score)
    \/ \E score \in Scores : ValidScore(score)
    \/ \E player_name \in Names : Start(player_name)
    \/ StartRandom
    \/ NextRound
    \/ Discard

SpecGame == InitGame /\ [][NextGame]_vars

----------------------------------------------------------------------------
(* Claims about the game's tiles and turns, checked under SpecGame *)

\* player p can take a tile with the score: some pick_tile or some
\* steal_tile call of p with that score succeeds
CanTakeTile(g, p, score) ==
    \E tile \in Range(TILES) :
        \/ pick_tile(g, p, tile, score).exc = "none"
        \/ steal_tile(g, p, tile, score).exc = "none"

\* C12: in every game state reached by pick_tile and steal_tile calls,
\* valid_score(score) returns a boolean, never an error, and returns True
\* if and only if the current player can take a tile with that score.
C12_ValidScoreIffCanTake ==
    ret.op = "valid_score" =>
        /\ ret.exc = "none"
        /\ ret.val <=> CanTakeTile(game, current_player(game), ret.args[1])

\* C17: a next_round() that follows start(name), name a player's, makes
\* that player the current player, and every next_round() moves the current
\* player on by one position, from the last player to the first.
C17_StartThenNextRound ==
    [][ret'.op = "next_round" =>
         /\ current_player(game') = (current_player(game) % NPlayers) + 1
         /\ (ret.op = "start" /\ ret.exc = "none" /\ Len(ret.args) = 1)
                => current_player(game') = ret.args[1]]_vars

\* next_round() has made the first player the current player
C17_Witness ==
    /\ ret.op = "next_round"
    /\ current_player(game) = 1
    /\ game.current_player_idx = 0

\* the number of places tile t is in: the free tiles and the players' stacks
TilePlaces(g, t) ==
    Count(t, g.free_tiles)
        + SumSeq([p \in 1..Len(g.tiles) |-> Count(t, g.tiles[p])])

\* the step is a steal_tile(tile, score) of player p that moved the top
\* tile of another player's stack to the top of p's stack
StealMovesTop(p, tile) ==
    /\ game'.free_tiles = game.free_tiles
    /\ \E q \in 1..NPlayers \ {p} :
         /\ game.tiles[q] /= <<>>
         /\ Last(game.tiles[q]) = tile
         /\ game'.tiles[q] = SubSeq(game.tiles[q], 1, Len(game.tiles[q]) - 1)
         /\ game'.tiles[p] = Append(game.tiles[p], tile)
         /\ \A o \in 1..NPlayers \ {p, q} : game'.tiles[o] = game.tiles[o]

\* C18: each of the tiles 21..36 is in exactly one place, the free tiles
\* or one player's stack, and nothing else is; a pick_tile or steal_tile
\* that raises TilePickError changes no tiles; a successful steal_tile moves
\* the top tile of another player's stack to the top of the stealer's.
C18_TileConservation ==
    /\ [](/\ \A t \in Range(TILES) : TilePlaces(game, t) = 1
          /\ Range(game.free_tiles) \subseteq Range(TILES)
          /\ \A p \in 1..NPlayers : Range(game.tiles[p]) \subseteq Range(TILES))
    /\ [][/\ (ret'.op \in {"pick_tile", "steal_tile"} /\ ret'.exc = "TilePickError")
                => (game'.free_tiles = game.free_tiles /\ game'.tiles = game.tiles)
          /\ (ret'.op = "steal_tile" /\ ret'.exc = "none")
                => StealMovesTop(ret'.args[1], ret'.args[2])]_vars

\* a player has stolen a tile and holds two tiles
C18_Witness ==
    /\ ret.op = "steal_tile"
    /\ ret.exc = "none"
    /\ Len(game.tiles[ret.args[1]]) >= 2
    /\ Last(game.tiles[ret.args[1]]) = ret.args[2]

----------------------------------------------------------------------------
(* SpecRound: one round of MaxDice dice, from the new Round to its end *)

\* the rolls of all_rolls(n)
RollsOf(n) == Range(all_rolls(n, FACES))

\* game.next_round() has returned a new Round; dsets holds the picked
\* sets that the picks of the round create, in the order of the picks
InitNewRound ==
    /\ game = Game_init
    /\ picked = Round_init(<<>>).picked
    /\ roll = Round_init(<<>>).roll
    /\ dsets = <<>>
    /\ ret = NoCall

\* the caller rolls all the dice that are not picked and sets the roll
RollDice ==
    /\ roll = None
    /\ \E faces \in RollsOf(MaxDice - Len(picked)) : roll' = Some(faces)
    /\ ret' = NoCall
    /\ UNCHANGED <<game, picked, dsets>>

\* self.pick(face) on the caller's Round; the caller goes on with the
\* Round returned
PickFace(face) ==
    LET r == pick([picked |-> picked, roll |-> roll], face)
    IN /\ ret = NoCall
       /\ roll /= None
       /\ ret' = [op |-> "pick", args |-> <<face>>, exc |-> r.exc, val |-> r.val]
       /\ IF r.exc = "none"
          THEN /\ picked' = r.val.picked
               /\ roll' = r.val.roll
               /\ dsets' = Append(dsets, r.val.picked)
          ELSE /\ picked' = r.self.picked
               /\ roll' = r.self.roll
               /\ UNCHANGED dsets
       /\ UNCHANGED game

\* the roll is set and has no face that is absent from picked
RoundOver == roll /= None /\ \A f \in Range(roll[1]) : DiceSet_contains(picked, f)

\* self.simulate(), asked for when no pick is left
SimulateOver ==
    /\ ret = NoCall
    /\ RoundOver
    /\ SimulateDone(simulate([picked |-> picked, roll |-> roll], game))
    /\ UNCHANGED dsets

NextRoundStep ==
    \/ RollDice
    \/ \E face \in Range(FACES) : PickFace(face)
    \/ SimulateOver
    \/ Discard

SpecRound == InitNewRound /\ [][NextRoundStep]_vars

\* the number of distinct faces in a dice set
NumFaces(faces) == Cardinality(Range(faces))

\* the step is a successful pick
PickStep == ret'.op = "pick" /\ ret'.exc = "none"

\* C16: each successful pick adds exactly one new distinct face to picked
\* and takes at least one die from the dice still to be rolled; a round of
\* n dice has at most min(6, n) picks, and once it has had that many, all n
\* dice are picked or the roll has no face absent from picked; simulate()
\* then returns an empty mapping.
C16_RoundIsFinite ==
    /\ [](/\ Len(dsets) <= IF MaxDice < 6 THEN MaxDice ELSE 6
          /\ Len(dsets) = (IF MaxDice < 6 THEN MaxDice ELSE 6)
                => (Len(picked) = MaxDice \/ NumFaces(picked) = Len(FACES))
          /\ (Len(dsets) = (IF MaxDice < 6 THEN MaxDice ELSE 6) /\ roll /= None)
                => RoundOver
          /\ (ret.op = "simulate" /\ RoundOver)
                => (ret.exc = "none" /\ DOMAIN ret.val = {}))
    /\ [][PickStep =>
            /\ Len(dsets') = Len(dsets) + 1
            /\ NumFaces(picked') = NumFaces(picked) + 1
            /\ Range(picked) \subseteq Range(picked')
            /\ MaxDice - Len(picked') <= MaxDice - Len(picked) - 1
            /\ MaxDice - Len(picked') >= 0]_vars

\* six picks were made in a round of more than six dice, dice are left,
\* and simulate() was asked on the roll of the dice left
C16_Witness ==
    /\ Len(dsets) = 6
    /\ Len(picked) < MaxDice
    /\ ret.op = "simulate"
    /\ roll /= None
    /\ Len(roll[1]) = MaxDice - Len(picked)
    /\ Len(roll[1]) >= 1

====
